---- MODULE Spec2Model ----
(***************************************************************************)
(* Model of the analyze_sentiment HTTP handler (AI Workflow Functions/     *)
(* analyze_sentiment/main.py): one request served against the stock_data,  *)
(* news_sentiment and recommendations tables, with the article scoring     *)
(* fan-out over a ThreadPoolExecutor and the final recommendation write.   *)
(*                                                                         *)
(* Beside it: fetch_stock_data (fetch_stock_data/main.py), which fills     *)
(* stock_data, and the dashboard (final.py): its read of the latest        *)
(* recommendation and its workflow trigger and monitor.                    *)
(*                                                                         *)
(* Numbers are exact rationals [n, d] (d > 0, lowest terms); the rounding  *)
(* of IEEE doubles is not modelled.  A text is a sequence of one-character *)
(* strings.                                                                *)
(***************************************************************************)
EXTENDS Integers, Sequences, FiniteSets, TLC

VARIABLES
    stock_data,          \* table stock_data: set of rows [symbol, date, close]
    news_sentiment,      \* table news_sentiment: set of rows [id, symbol, full_content, sentiment_score]
    recommendations,     \* table recommendations: set of rows
    symbol_unique,       \* does recommendations carry the unique index on symbol that ON CONFLICT (symbol) names
    pc,                  \* position of the request in analyze_sentiment
    company_name,        \* request.args.get("company_name")
    stock_data_df,       \* the price frame after dropna: sequence of [date, close]
    overall_trend,
    news_sentiment_df,   \* the article frame: sequence of [id, full_content]
    futures,             \* executor futures, one per row of news_sentiment_df
    sentiment_scores,    \* list the as_completed loop appends to
    fused,               \* recent_sentiment, weights, recommendation_score, final_recommendation, reasoning
    txn,                 \* the open Session of the recommendation write: its view of the table
    response,            \* what the handler returned: [status, body]
    log,                 \* what the run did: scoring calls, UPDATE attempts, the write's fate
    session_state,       \* the dashboard's st.session_state: workflow_execution_id, workflow_run_in_progress
    dash                 \* the dashboard script inside trigger_workflow_for_stock: position, polls made

dbVars  == <<stock_data, news_sentiment, recommendations, symbol_unique>>
dashVars == <<session_state, dash>>
reqVars == <<pc, company_name, stock_data_df, overall_trend, news_sentiment_df,
             futures, sentiment_scores, fused, txn, response, log>>
vars    == <<dbVars, reqVars, dashVars>>

----------------------------------------------------------------------------
(* Bounds of the model *)

MaxArticles  == 2    \* rows of news_sentiment per symbol
MaxInitRows  == 5    \* recommendation rows a symbol may hold before the request
MaxLen       == 3    \* characters of a scoring-service response
MaxPolls     == 4    \* status polls of the dashboard that find the execution still running

(* Program constants *)

max_workers     == 5      \* ThreadPoolExecutor(max_workers=5)
MinContentLen   == 100    \* len(row['full_content'].strip()) < 100
RetentionKeep   == 4      \* ... COUNT(*) ... - 4
YearAgo         == 0      \* NOW() - INTERVAL '1 year', as a day index

----------------------------------------------------------------------------
(* Rationals *)

Abs(x) == IF x < 0 THEN -x ELSE x

RECURSIVE GCD(_, _)
GCD(a, b) == IF b = 0 THEN a ELSE GCD(b, a % b)

Rat(n, d) ==
    LET s == IF d < 0 THEN -1 ELSE 1
        g == GCD(Abs(n), Abs(d))
    IN  [n |-> (s * n) \div g, d |-> (s * d) \div g]

Zero == [n |-> 0, d |-> 1]

RAdd(a, b) == Rat(a.n * b.d + b.n * a.d, a.d * b.d)
RMul(a, b) == Rat(a.n * b.n, a.d * b.d)
RDiv(a, b) == Rat(a.n * b.d, a.d * b.n)
RLess(a, b) == a.n * b.d < b.n * a.d
RAbs(a) == [n |-> Abs(a.n), d |-> a.d]

RECURSIVE RSum(_)
RSum(s) == IF s = <<>> THEN Zero ELSE RAdd(s[1], RSum(Tail(s)))

RECURSIVE Pow10(_)
Pow10(k) == IF k = 0 THEN 1 ELSE 10 * Pow10(k - 1)

----------------------------------------------------------------------------
(* The scoring-service response and its parse (analyze_article_sentiment) *)

Chars  == {"-", ".", "1", "5", "x"}
Digits == {"0", "1", "2", "3", "4", "5", "6", "7", "8", "9"}
Signs  == {"-", "+"}

DigitVal(c) ==
    CASE c = "0" -> 0 [] c = "1" -> 1 [] c = "2" -> 2 [] c = "3" -> 3 [] c = "4" -> 4
      [] c = "5" -> 5 [] c = "6" -> 6 [] c = "7" -> 7 [] c = "8" -> 8 [] c = "9" -> 9

\* every text of at most k characters
RECURSIVE TextsUpTo(_)
TextsUpTo(k) ==
    IF k = 0 THEN {<<>>}
    ELSE LET shorter == TextsUpTo(k - 1)
         IN  shorter \cup {Append(t, c) : t \in {u \in shorter : Len(u) = k - 1}, c \in Chars}

\* the index after the longest run of digits that starts at i (i itself when none)
RECURSIVE DigitRun(_, _)
DigitRun(s, i) ==
    IF i <= Len(s) /\ s[i] \in Digits THEN DigitRun(s, i + 1) ELSE i

\* [-+]?\d*\.\d+ anchored at i: the index after the match, 0 when it does not match.
\* The greedy choices are the only ones that can succeed: a sign left unconsumed or a
\* digit left by \d* is not a "."
SignedDecimalAt(s, i) ==
    LET j == IF i <= Len(s) /\ s[i] \in Signs THEN i + 1 ELSE i
        k == DigitRun(s, j)
        m == IF k <= Len(s) /\ s[k] = "." THEN DigitRun(s, k + 1) ELSE 0
    IN  IF m > k + 1 THEN m ELSE 0

\* \d+ anchored at i
UnsignedIntAt(s, i) ==
    LET m == DigitRun(s, i) IN IF m > i THEN m ELSE 0

\* the pattern r'[-+]?\d*\.\d+|\d+' anchored at i: the first alternative that matches
PatternAt(s, i) ==
    IF SignedDecimalAt(s, i) # 0 THEN SignedDecimalAt(s, i) ELSE UnsignedIntAt(s, i)

\* re.search: the leftmost position where the pattern matches; <<>> when there is none
re_search(s) ==
    LET hits == {i \in 1..Len(s) : PatternAt(s, i) # 0}
    IN  IF hits = {} THEN <<>>
        ELSE LET i == CHOOSE h \in hits : \A g \in hits : h <= g
             IN  SubSeq(s, i, PatternAt(s, i) - 1)

RECURSIVE NatOf(_)
NatOf(ds) ==
    IF ds = <<>> THEN 0 ELSE NatOf(SubSeq(ds, 1, Len(ds) - 1)) * 10 + DigitVal(ds[Len(ds)])

\* float(text) for a text of the shape [sign] digits* [. digits+]
float(t) ==
    LET neg  == t # <<>> /\ t[1] = "-"
        u    == IF t # <<>> /\ t[1] \in Signs THEN Tail(t) ELSE t
        k    == DigitRun(u, 1)
        int  == SubSeq(u, 1, k - 1)
        frac == IF k <= Len(u) THEN SubSeq(u, k + 1, Len(u)) ELSE <<>>
        mag  == Rat(NatOf(int) * Pow10(Len(frac)) + NatOf(frac), Pow10(Len(frac)))
    IN  IF neg THEN [n |-> -mag.n, d |-> mag.d] ELSE mag

\* the value parsed from response.text: float(match.group()), or 0.0 without a match
ParseSentiment(sentiment_text) ==
    IF re_search(sentiment_text) # <<>> THEN float(re_search(sentiment_text)) ELSE Zero

ScoringError == <<"exception">>   \* model.generate_content raises, or response.text does

\* content of an article: NULL, or pad whitespace characters around core others
NullContent == [null |-> TRUE, pad |-> 0, core |-> 0]
Content(pad, core) == [null |-> FALSE, pad |-> pad, core |-> core]
\* the length taken without strip()
StrippedLen_Unstripped(c) == c.pad + c.core
StrippedLen(c) == c.core                      \* len(full_content.strip())

\* analyze_article_sentiment(row) given what the service answers: the future's outcome
\* [raised, called, text, value]
analyze_article_sentiment(row, answer) ==
    IF row.full_content.null
    THEN [raised |-> TRUE, called |-> FALSE, text |-> <<>>, value |-> Zero]   \* None.strip()
    ELSE IF StrippedLen(row.full_content) < MinContentLen
    THEN [raised |-> FALSE, called |-> FALSE, text |-> <<>>, value |-> Zero]
    ELSE IF answer = ScoringError
    THEN [raised |-> FALSE, called |-> TRUE, text |-> answer, value |-> Zero]
    ELSE [raised |-> FALSE, called |-> TRUE, text |-> answer, value |-> ParseSentiment(answer)]

----------------------------------------------------------------------------
(* Symbols *)

upper(s) == CASE s = "aapl" -> "AAPL" [] s = "msft" -> "MSFT" [] OTHER -> s
LOWER(s) == CASE s = "AAPL" -> "aapl" [] s = "MSFT" -> "msft" [] OTHER -> s

Names == {"", "aapl"}       \* the company_name argument; "" is an absent or empty one

----------------------------------------------------------------------------
(* The tables before the request *)

NullClose == [null |-> TRUE, v |-> 0]
Close(v)  == [null |-> FALSE, v |-> v]
Contents  == {NullContent, Content(1, 99), Content(0, 100)}

RECURSIVE SeqsUpTo(_, _)
SeqsUpTo(S, k) ==
    IF k = 0 THEN {<<>>}
    ELSE LET shorter == SeqsUpTo(S, k - 1)
         IN  shorter \cup {Append(t, c) : t \in {u \in shorter : Len(u) = k - 1}, c \in S}

\* the in-window price histories tried, oldest bar first
PriceHistories ==
    {<<>>, <<NullClose>>, <<Close(100)>>, <<Close(100), NullClose, Close(110)>>}

\* NULL first, then by length: an order of the contents, used to count each batch of
\* articles once (which id carries which content makes no difference to the handler)
ContentRank(c) == IF c.null THEN 0 ELSE c.core

ArticleBatches ==
    {b \in SeqsUpTo(Contents, MaxArticles) :
        \A i \in 1..(Len(b) - 1) : ContentRank(b[i]) <= ContentRank(b[i + 1])}

\* rows as fetch_stock_data stores them under the company_name it was given, one per
\* date; the row of day YearAgo is older than the analysis window
StockRows(history) ==
    {[symbol |-> "aapl", date |-> YearAgo, close |-> Close(100)]}
      \cup {[symbol |-> "aapl", date |-> YearAgo + i, close |-> history[i]] : i \in 1..Len(history)}

\* rows as fetch_news_data stores them: sentiment_score 0.0 until scored
NewsRows(batch) ==
    {[id |-> i, symbol |-> "aapl", full_content |-> batch[i], sentiment_score |-> Zero]
        : i \in 1..Len(batch)}

StoredReasoning == [sentiment |-> 0, trend |-> 0, rec |-> "Hold"]

RecRow(id, symbol, created_at) ==
    [id |-> id, symbol |-> symbol, recommendation_score |-> Zero,
     final_recommendation |-> "Hold", reasoning |-> StoredReasoning,
     created_at |-> created_at, close_price |-> 100, moving_average |-> Zero,
     date |-> YearAgo]

\* k rows for AAPL, the oldest carrying the highest id, and one row of another symbol
RecRows(k) ==
    {RecRow(i, "AAPL", k + 1 - i) : i \in 1..k} \cup {RecRow(0, "MSFT", 0)}

utcnow == MaxInitRows + 2        \* datetime.utcnow(): later than every stored created_at

NoFused == [set |-> FALSE]
NoTxn   == [open |-> FALSE, rows |-> {}]
NoResponse == [status |-> 0, body |-> [pending |-> TRUE]]

\* st.session_state as the dashboard sets it before it triggers a workflow
NoWorkflow == [workflow_execution_id |-> "None", workflow_run_in_progress |-> FALSE]

\* the dashboard outside trigger_workflow_for_stock
NoDash == [pc |-> "idle", step_index |-> 0, observed |-> <<>>, exit |-> "none"]

\* no request has been made
BeforeRequest ==
    /\ session_state = NoWorkflow
    /\ dash = NoDash
    /\ pc = "idle"
    /\ company_name = ""
    /\ stock_data_df = <<>>
    /\ overall_trend = Zero
    /\ news_sentiment_df = <<>>
    /\ futures = <<>>
    /\ sentiment_scores = <<>>
    /\ fused = NoFused
    /\ txn = NoTxn
    /\ response = NoResponse
    /\ log = [stock_read |-> "none", news_read |-> "none", scoring_calls |-> 0,
              updates |-> <<>>, update_failed |-> {}, write |-> "none", failed_at |-> "none",
              recs0 |-> recommendations, news0 |-> news_sentiment]

Init ==
    /\ \E history \in PriceHistories : stock_data = StockRows(history)
    /\ \E batch \in ArticleBatches : news_sentiment = NewsRows(batch)
    /\ \E k \in 0..MaxInitRows :
          /\ recommendations = RecRows(k)
          /\ symbol_unique = (k <= 1)
    /\ BeforeRequest

----------------------------------------------------------------------------
(* Reading the tables and the trend (lines 77-111) *)

\* the rows in ascending order of key[row]
RECURSIVE OrderBy(_, _)
OrderBy(rows, key) ==
    IF rows = {} THEN <<>>
    ELSE LET r == CHOOSE r \in rows : \A q \in rows : key[r] <= key[q]
         IN  <<r>> \o OrderBy(rows \ {r}, key)

\* the columns cols of each row
Select(rows, cols) == [i \in DOMAIN rows |-> [c \in cols |-> rows[i][c]]]

\* SELECT date, close FROM stock_data WHERE LOWER(symbol) = LOWER(:symbol)
\*   AND date > NOW() - INTERVAL '1 year' ORDER BY date ASC
stock_data_query(symbol) ==
    Select(OrderBy({r \in stock_data : LOWER(r.symbol) = LOWER(symbol) /\ r.date > YearAgo},
                   [r \in stock_data |-> r.date]),
           {"date", "close"})

\* stock_data_df.dropna(subset=['close'])
dropna(df) == SelectSeq(df, LAMBDA r : ~r.close.null)

\* close.pct_change() * 100, without its leading NaN
percent_change(df) ==
    [i \in 1..(Len(df) - 1) |->
        Rat((df[i + 1].close.v - df[i].close.v) * 100, df[i].close.v)]

mean(xs) == RDiv(RSum(xs), Rat(Len(xs), 1))

\* the NaN of a short series replaced by 1.0
trend_DefaultOne(df) == IF Len(df) < 2 THEN Rat(1, 1) ELSE mean(percent_change(df))

\* percent_change.mean(), 0.0 when that is NaN
trend(df) == IF Len(df) < 2 THEN Zero ELSE mean(percent_change(df))

RollingWindow == 7

\* close.rolling(7).mean() at the last row: NaN while the frame has fewer than 7 rows
moving_average(df) ==
    IF Len(df) < RollingWindow
    THEN [null |-> TRUE, v |-> Zero]
    ELSE [null |-> FALSE,
          v |-> mean([i \in 1..RollingWindow |->
                         Rat(df[Len(df) - RollingWindow + i].close.v, 1)])]

\* SELECT id, title, full_content FROM news_sentiment WHERE LOWER(symbol) = LOWER(:symbol).
\* The rows come in no stated order; the workers below start in any order, so the
\* order taken here does not restrict the runs.
news_sentiment_query(symbol) ==
    Select(OrderBy({r \in news_sentiment : LOWER(r.symbol) = LOWER(symbol)},
                   [r \in news_sentiment |-> r.id]),
           {"id", "full_content"})

----------------------------------------------------------------------------
(* The request, up to the fan-out (lines 66-143) *)

stock_symbol == upper(company_name)

Respond(status, body) == [status |-> status, body |-> body]

Submitted ==
    [state |-> "queued", collected |-> FALSE,
     raised |-> FALSE, called |-> FALSE, text |-> <<>>, value |-> Zero]

\* the emptiness checks left out
NoStockData_Unchecked(df) == FALSE
NoNewsData_Unchecked(df) == FALSE

\* stock_data_df.empty, news_sentiment_df.empty
NoStockData(df) == df = <<>>
NoNewsData(df) == df = <<>>

\* the parameter check left out
MissingName_Unchecked(name) == FALSE

\* not company_name: the parameter is absent or empty
MissingName(name) == name = ""

\* analyze_sentiment from its entry to the submission of the scoring tasks;
\* stock_ok and news_ok tell whether the two reads succeed
HandleRequest(name, stock_ok, news_ok) ==
    /\ pc = "idle"
    /\ company_name' = name
    /\ LET symbol == upper(name)
           read   == stock_data_query(symbol)
           news   == news_sentiment_query(symbol)
           before_stock == MissingName(name) \/ ~stock_ok \/ NoStockData(read)
           ends   == before_stock \/ ~news_ok \/ NoNewsData(news)
       IN  /\ stock_data_df' = IF before_stock THEN <<>> ELSE dropna(read)
           /\ overall_trend' = IF before_stock THEN Zero ELSE trend(dropna(read))
           /\ news_sentiment_df' = IF ends THEN <<>> ELSE news
           /\ futures' = IF ends THEN <<>> ELSE [i \in 1..Len(news) |-> Submitted]
           /\ pc' = IF ends THEN "done" ELSE "scoring"
           /\ response' =
                IF MissingName(name) THEN Respond(400, [error |-> "Missing 'company_name' parameter"])
                ELSE IF ~stock_ok THEN Respond(500, [error |-> "Error occurred"])
                ELSE IF NoStockData(read) THEN Respond(404, [error |-> "No stock data available"])
                ELSE IF ~news_ok THEN Respond(500, [error |-> "Error occurred"])
                ELSE IF NoNewsData(news) THEN Respond(404, [error |-> "No news sentiment data available"])
                ELSE response
           /\ log' = [log EXCEPT
                !.stock_read = IF MissingName(name) THEN "none" ELSE IF stock_ok THEN "ok" ELSE "failed",
                !.news_read  = IF before_stock THEN "none" ELSE IF news_ok THEN "ok" ELSE "failed"]
    /\ UNCHANGED <<dashVars, dbVars, sentiment_scores, fused, txn>>

----------------------------------------------------------------------------
(* The scoring fan-out and the as_completed loop (lines 117-160) *)

Running == {i \in DOMAIN futures : futures[i].state = "running"}

\* a pool thread takes a queued task
WorkerStart(i) ==
    /\ pc \in {"scoring", "unwinding"}
    /\ futures[i].state = "queued"
    /\ Cardinality(Running) < max_workers
    /\ futures' = [futures EXCEPT ![i].state = "running"]
    /\ UNCHANGED <<dashVars, dbVars, pc, company_name, stock_data_df, overall_trend,
                   news_sentiment_df, sentiment_scores, fused, txn, response, log>>

\* the task runs analyze_article_sentiment(row); answer is what the service does
WorkerFinish(i, answer) ==
    /\ pc \in {"scoring", "unwinding"}
    /\ futures[i].state = "running"
    /\ LET out == analyze_article_sentiment(news_sentiment_df[i], answer)
       IN  /\ futures' = [futures EXCEPT ![i] =
                            [state |-> "done", collected |-> FALSE, raised |-> out.raised,
                             called |-> out.called, text |-> out.text, value |-> out.value]]
           /\ log' = [log EXCEPT !.scoring_calls = @ + (IF out.called THEN 1 ELSE 0)]
    /\ UNCHANGED <<dashVars, dbVars, pc, company_name, stock_data_df, overall_trend,
                   news_sentiment_df, sentiment_scores, fused, txn, response>>

\* the UPDATE without its WHERE clause
update_sentiment_Unkeyed(rows, id, score) ==
    {[r EXCEPT !.sentiment_score = score] : r \in rows}

\* UPDATE news_sentiment SET sentiment_score = :sentiment_score WHERE id = :id
update_sentiment(rows, id, score) ==
    {IF r.id = id THEN [r EXCEPT !.sentiment_score = score] ELSE r : r \in rows}

\* the loop body without its try/except: a failed UPDATE leaves the loop as an exception
Collect_NoTry(i, update_ok) ==
    /\ pc = "scoring"
    /\ futures[i].state = "done" /\ ~futures[i].collected /\ ~futures[i].raised
    /\ futures' = [futures EXCEPT ![i].collected = TRUE]
    /\ sentiment_scores' = Append(sentiment_scores, futures[i].value)
    /\ news_sentiment' =
          IF update_ok
          THEN update_sentiment(news_sentiment, news_sentiment_df[i].id, futures[i].value)
          ELSE news_sentiment
    /\ pc' = IF update_ok THEN pc ELSE "unwinding"
    /\ log' = [log EXCEPT !.updates = Append(@, news_sentiment_df[i].id),
                          !.update_failed = IF update_ok THEN @ ELSE @ \cup {news_sentiment_df[i].id}]
    /\ UNCHANGED <<dashVars, stock_data, recommendations, symbol_unique, company_name,
                   stock_data_df, overall_trend, news_sentiment_df, fused, txn, response>>

\* one turn of "for future in as_completed(futures)" on a finished task: the score is
\* appended and its UPDATE is attempted; update_ok tells whether execute and commit succeed
Collect(i, update_ok) ==
    /\ pc = "scoring"
    /\ futures[i].state = "done" /\ ~futures[i].collected /\ ~futures[i].raised
    /\ futures' = [futures EXCEPT ![i].collected = TRUE]
    /\ sentiment_scores' = Append(sentiment_scores, futures[i].value)
    /\ news_sentiment' =
          IF update_ok
          THEN update_sentiment(news_sentiment, news_sentiment_df[i].id, futures[i].value)
          ELSE news_sentiment
    /\ log' = [log EXCEPT !.updates = Append(@, news_sentiment_df[i].id),
                          !.update_failed = IF update_ok THEN @ ELSE @ \cup {news_sentiment_df[i].id}]
    /\ UNCHANGED <<dashVars, stock_data, recommendations, symbol_unique, pc, company_name,
                   stock_data_df, overall_trend, news_sentiment_df, fused, txn, response>>

\* future.result() re-raises the task's exception: the loop is left, and leaving the
\* "with ThreadPoolExecutor" block waits for the tasks still queued or running
CollectRaises(i) ==
    /\ pc = "scoring"
    /\ futures[i].state = "done" /\ ~futures[i].collected /\ futures[i].raised
    /\ futures' = [futures EXCEPT ![i].collected = TRUE]
    /\ pc' = "unwinding"
    /\ UNCHANGED <<dashVars, dbVars, company_name, stock_data_df, overall_trend, news_sentiment_df,
                   sentiment_scores, fused, txn, response, log>>

\* executor.shutdown(wait=True) has returned; the outer handler answers 500
Unwound ==
    /\ pc = "unwinding"
    /\ \A i \in DOMAIN futures : futures[i].state = "done"
    /\ pc' = "done"
    /\ response' = Respond(500, [error |-> "Error occurred"])
    /\ UNCHANGED <<dashVars, dbVars, company_name, stock_data_df, overall_trend, news_sentiment_df,
                   futures, sentiment_scores, fused, txn, log>>

----------------------------------------------------------------------------
(* Aggregation and fusion (lines 162-196) *)

\* f"{x:.2f}": x in hundredths, rounded half to even
Fmt2(x) ==
    LET a  == Abs(x.n) * 100
        q  == a \div x.d
        r  == a % x.d
        m  == IF 2 * r > x.d \/ (2 * r = x.d /\ q % 2 = 1) THEN q + 1 ELSE q
    IN  IF x.n < 0 THEN -m ELSE m

\* the mean taken over the scores that are not the default 0.0
recent_sentiment_of_NonDefault(scores) ==
    LET kept == SelectSeq(scores, LAMBDA x : x # Zero)
    IN  IF kept # <<>> THEN mean(kept) ELSE Zero

\* sum(sentiment_scores) / len(sentiment_scores) if sentiment_scores else 0.0
recent_sentiment_of(scores) == IF scores # <<>> THEN mean(scores) ELSE Zero

\* the trend test made before the sentiment test
sentiment_weight_of_TrendFirst(sentiment, trnd) ==
    IF RLess(Rat(1, 2), RAbs(trnd)) THEN Rat(3, 10)
    ELSE IF RLess(Rat(1, 2), RAbs(sentiment)) THEN Rat(7, 10)
    ELSE Rat(1, 2)

sentiment_weight_of(sentiment, trnd) ==
    IF RLess(Rat(1, 2), RAbs(sentiment)) THEN Rat(7, 10)
    ELSE IF RLess(Rat(1, 2), RAbs(trnd)) THEN Rat(3, 10)
    ELSE Rat(1, 2)

trend_weight_of(sentiment, trnd) ==
    IF RLess(Rat(1, 2), RAbs(sentiment)) THEN Rat(3, 10)
    ELSE IF RLess(Rat(1, 2), RAbs(trnd)) THEN Rat(7, 10)
    ELSE Rat(1, 2)

\* the thresholds taken inclusively
final_recommendation_of_Inclusive(score) ==
    IF ~RLess(score, Rat(2, 10)) THEN "Buy"
    ELSE IF ~RLess(Rat(-2, 10), score) THEN "Sell"
    ELSE "Hold"

final_recommendation_of(score) ==
    IF RLess(Rat(2, 10), score) THEN "Buy"
    ELSE IF RLess(score, Rat(-2, 10)) THEN "Sell"
    ELSE "Hold"

Fuse(scores, trnd) ==
    LET sentiment == recent_sentiment_of(scores)
        sw    == sentiment_weight_of(sentiment, trnd)
        tw    == trend_weight_of(sentiment, trnd)
        score == RAdd(RMul(sw, sentiment), RMul(tw, trnd))
        final == final_recommendation_of(score)
    IN  [set |-> TRUE, recent_sentiment |-> sentiment, sentiment_weight |-> sw,
         trend_weight |-> tw, recommendation_score |-> score,
         final_recommendation |-> final,
         reasoning |-> [sentiment |-> Fmt2(sentiment), trend |-> Fmt2(trnd), rec |-> final]]

\* the loop has taken every future: the with block ends, the scores are fused
Aggregate ==
    /\ pc = "scoring"
    /\ \A i \in DOMAIN futures : futures[i].collected
    /\ fused' = Fuse(sentiment_scores, overall_trend)
    /\ pc' = "tx_delete"
    /\ UNCHANGED <<dashVars, dbVars, company_name, stock_data_df, overall_trend, news_sentiment_df,
                   futures, sentiment_scores, txn, response, log>>

----------------------------------------------------------------------------
(* The recommendation write (lines 199-246) *)

\* DELETE FROM recommendations WHERE symbol = :symbol AND id IN (SELECT id ... ORDER BY
\*   created_at ASC LIMIT GREATEST(0, (SELECT COUNT(*) ...) - 4))
remove_old_records(rows, symbol) ==
    LET mine    == {r \in rows : r.symbol = symbol}
        excess  == Cardinality(mine) - RetentionKeep
        limit   == IF excess > 0 THEN excess ELSE 0
        ordered == OrderBy(mine, [r \in mine |-> r.created_at])
        oldest  == {ordered[i].id : i \in 1..limit}
    IN  {r \in rows : ~(r.symbol = symbol /\ r.id \in oldest)}

NextId(rows) == 1 + CHOOSE m \in {r.id : r \in rows} \cup {0} : \A r \in rows : r.id <= m

\* the row of this run
NewRow(id) ==
    [id |-> id, symbol |-> stock_symbol,
     recommendation_score |-> fused.recommendation_score,
     final_recommendation |-> fused.final_recommendation,
     reasoning |-> fused.reasoning,
     created_at |-> utcnow,
     close_price |-> stock_data_df[Len(stock_data_df)].close.v,
     moving_average |-> overall_trend,
     date |-> stock_data_df[Len(stock_data_df)].date]

\* the statement with ON CONFLICT (symbol) DO NOTHING
insert_recommendation_DoNothing(rows) ==
    IF \E r \in rows : r.symbol = stock_symbol
    THEN rows
    ELSE rows \cup {NewRow(NextId(rows))}

\* INSERT ... ON CONFLICT (symbol) DO UPDATE SET ...: the row of the symbol is
\* overwritten in place when there is one, a new row is inserted when there is none
insert_recommendation(rows) ==
    IF \E r \in rows : r.symbol = stock_symbol
    THEN {IF r.symbol = stock_symbol THEN NewRow(r.id) ELSE r : r \in rows}
    ELSE rows \cup {NewRow(NextId(rows))}

\* the statement cannot run: .iloc[-1] of an empty frame raises IndexError while the
\* parameters are built, and ON CONFLICT (symbol) is rejected without a unique index
InsertRejected == stock_data_df = <<>> \/ ~symbol_unique

OkBody ==
    [symbol |-> stock_symbol, recommendation_score |-> fused.recommendation_score,
     final_recommendation |-> fused.final_recommendation, reasoning |-> fused.reasoning]

\* the DELETE run on an autocommitting connection: it takes effect at once
TxDelete_Autocommit ==
    /\ pc = "tx_delete"
    /\ recommendations' = remove_old_records(recommendations, stock_symbol)
    /\ txn' = [open |-> TRUE, rows |-> recommendations']
    /\ pc' = "tx_insert"
    /\ UNCHANGED <<dashVars, stock_data, news_sentiment, symbol_unique, company_name, stock_data_df,
                   overall_trend, news_sentiment_df, futures, sentiment_scores, fused,
                   response, log>>

\* session.execute(remove_old_records_query) inside the session's transaction
TxDelete ==
    /\ pc = "tx_delete"
    /\ txn' = [open |-> TRUE, rows |-> remove_old_records(recommendations, stock_symbol)]
    /\ pc' = "tx_insert"
    /\ UNCHANGED <<dashVars, dbVars, company_name, stock_data_df, overall_trend, news_sentiment_df,
                   futures, sentiment_scores, fused, response, log>>

\* session.execute(insert_recommendation_query, {...})
TxInsert ==
    /\ pc = "tx_insert"
    /\ ~InsertRejected
    /\ txn' = [txn EXCEPT !.rows = insert_recommendation(txn.rows)]
    /\ pc' = "tx_commit"
    /\ UNCHANGED <<dashVars, dbVars, company_name, stock_data_df, overall_trend, news_sentiment_df,
                   futures, sentiment_scores, fused, response, log>>

\* session.commit(), then the 200 response
TxCommit ==
    /\ pc = "tx_commit"
    /\ recommendations' = txn.rows
    /\ txn' = NoTxn
    /\ log' = [log EXCEPT !.write = "committed"]
    /\ response' = Respond(200, OkBody)
    /\ pc' = "done"
    /\ UNCHANGED <<dashVars, stock_data, news_sentiment, symbol_unique, company_name, stock_data_df,
                   overall_trend, news_sentiment_df, futures, sentiment_scores, fused>>

\* the except branch answering with an error instead of falling through
TxFails_ErrorBody ==
    /\ pc \in {"tx_delete", "tx_insert", "tx_commit"}
    /\ txn' = NoTxn
    /\ log' = [log EXCEPT !.write = "rolled_back", !.failed_at = pc]
    /\ response' = Respond(500, [error |-> "Error occurred"])
    /\ pc' = "done"
    /\ UNCHANGED <<dashVars, dbVars, company_name, stock_data_df, overall_trend, news_sentiment_df,
                   futures, sentiment_scores, fused>>

\* a statement or the commit raises: the except branch logs, session.rollback()
\* discards the transaction, and the handler goes on to the same 200 response
TxFails ==
    /\ pc \in {"tx_delete", "tx_insert", "tx_commit"}
    /\ txn' = NoTxn
    /\ log' = [log EXCEPT !.write = "rolled_back", !.failed_at = pc]
    /\ response' = Respond(200, OkBody)
    /\ pc' = "done"
    /\ UNCHANGED <<dashVars, dbVars, company_name, stock_data_df, overall_trend, news_sentiment_df,
                   futures, sentiment_scores, fused>>

----------------------------------------------------------------------------
(* The service answers a handful of texts in the full request model *)

Answers ==
    {<<".", "5">>, <<"-", ".", "5">>, <<"5">>, <<"x">>, ScoringError}

AllAnswers == TextsUpTo(MaxLen) \cup {ScoringError}

NextWith(answers) ==
    \/ \E name \in Names, stock_ok \in BOOLEAN, news_ok \in BOOLEAN :
          HandleRequest(name, stock_ok, news_ok)
    \/ \E i \in DOMAIN futures : WorkerStart(i)
    \/ \E i \in DOMAIN futures, answer \in answers : WorkerFinish(i, answer)
    \/ \E i \in DOMAIN futures, update_ok \in BOOLEAN : Collect(i, update_ok)
    \/ \E i \in DOMAIN futures : CollectRaises(i)
    \/ Unwound
    \/ Aggregate
    \/ TxDelete
    \/ TxInsert
    \/ TxCommit
    \/ TxFails

Next == NextWith(Answers)

Spec == Init /\ [][Next]_vars

\* The steps the handler and its pool threads take on their own. A task that reaches
\* model.generate_content(prompt) waits for the service: the call is made without a
\* timeout, so its return is no step of the program's own
LocalStep ==
    \/ \E name \in Names, stock_ok \in BOOLEAN, news_ok \in BOOLEAN :
          HandleRequest(name, stock_ok, news_ok)
    \/ \E i \in DOMAIN futures : WorkerStart(i)
    \/ \E i \in DOMAIN futures : WorkerFinish(i, ScoringError) /\ ~futures'[i].called
    \/ \E i \in DOMAIN futures, update_ok \in BOOLEAN : Collect(i, update_ok)
    \/ \E i \in DOMAIN futures : CollectRaises(i)
    \/ Unwound
    \/ Aggregate
    \/ TxDelete
    \/ TxInsert
    \/ TxCommit
    \/ TxFails

\* the request under a scheduler that keeps running what can run
FairSpec == Init /\ [][Next]_vars /\ WF_vars(LocalStep)

\* The scorer on every response text of at most MaxLen characters: a request over one
\* article (or two, to keep the loop's branches alive), the other inputs fixed
InitScorer ==
    /\ Init
    /\ stock_data = StockRows(<<Close(100)>>)
    /\ \E batch \in {<<Content(0, 100)>>, <<NullContent, Content(1, 99)>>} :
          news_sentiment = NewsRows(batch)
    /\ recommendations = RecRows(0)

NextScorer == NextWith(AllAnswers)

SpecScorer == InitScorer /\ [][NextScorer]_vars

\* The fusion around its thresholds: one article whose score is the service's answer,
\* price histories whose trend is 0, 0.5, 1, -0.5 and -1 percent
FusionHistories ==
    {<<Close(100)>>, <<Close(200), Close(201)>>, <<Close(200), Close(202)>>,
     <<Close(200), Close(199)>>, <<Close(200), Close(198)>>}

FusionAnswers ==
    {<<".", "4">>, <<"-", ".", "4">>, <<".", "4", "1">>, <<"-", ".", "4", "1">>,
     <<".", "5">>, <<"-", ".", "5">>, <<".", "5", "1">>, <<"-", ".", "5", "1">>,
     ScoringError}

InitFusion ==
    /\ \E history \in FusionHistories : stock_data = StockRows(history)
    /\ \E batch \in {<<Content(0, 100)>>, <<NullContent, Content(1, 99)>>} :
          news_sentiment = NewsRows(batch)
    /\ recommendations = RecRows(0)
    /\ symbol_unique = TRUE
    /\ BeforeRequest

NextFusion == NextWith(FusionAnswers)

SpecFusion == InitFusion /\ [][NextFusion]_vars

\* The row written for a short and for a long price history: one bar, and seven bars
\* of which the last closes higher (trend 7/6 percent, moving average 101)
BarsHistories ==
    {<<Close(100)>>,
     [i \in 1..RollingWindow |-> IF i < RollingWindow THEN Close(100) ELSE Close(107)]}

InitBars ==
    /\ \E history \in BarsHistories : stock_data = StockRows(history)
    /\ \E batch \in {<<Content(0, 100)>>, <<NullContent, Content(1, 99)>>} :
          news_sentiment = NewsRows(batch)
    /\ \E k \in 0..1 : recommendations = RecRows(k)
    /\ symbol_unique = TRUE
    /\ BeforeRequest

NextBars == NextWith({<<".", "5">>, <<"5">>, ScoringError})

SpecBars == InitBars /\ [][NextBars]_vars

----------------------------------------------------------------------------
(* fetch_stock_data (fetch_stock_data/main.py lines 50-100) *)

FetchNames == {"", "aapl", "AAPL"}     \* the company_name argument as the caller typed it

\* what yf.download returns for the ticker: the closes of the last days, <<>> for none
Downloads == {<<>>, <<Close(100)>>, <<Close(100), Close(110)>>}

\* df with df['symbol'] = company_name
DownloadRows(name, history) ==
    {[symbol |-> name, date |-> YearAgo + i, close |-> history[i]] : i \in 1..Len(history)}

\* DELETE FROM stock_data WHERE symbol = :symbol AND date >= :start_date AND date <= :end_date
delete_stock_data(rows, name) ==
    {r \in rows : ~(r.symbol = name /\ r.date >= YearAgo)}

\* the whole handler: a missing name (400), an empty download (404) and a failed save
\* (500, the transaction of pool.begin() is rolled back) leave the table as it is;
\* otherwise the rows of the symbol as given are replaced by the download
fetch_stock_data(name, history, save_ok) ==
    /\ pc = "idle"
    /\ stock_data' =
          IF name = "" \/ history = <<>> \/ ~save_ok
          THEN stock_data
          ELSE delete_stock_data(stock_data, name) \cup DownloadRows(name, history)
    /\ UNCHANGED <<dashVars, news_sentiment, recommendations, symbol_unique, reqVars>>

\* Price fetches in any number and order, then one analysis request
InitFetch ==
    /\ stock_data = {}
    /\ \E batch \in {<<Content(0, 100)>>, <<NullContent, Content(1, 99)>>} :
          news_sentiment = NewsRows(batch)
    /\ recommendations = RecRows(0)
    /\ symbol_unique = TRUE
    /\ BeforeRequest

NextFetch ==
    \/ \E name \in FetchNames, history \in Downloads, save_ok \in BOOLEAN :
          fetch_stock_data(name, history, save_ok)
    \/ NextWith({<<"5">>, ScoringError})

SpecFetch == InitFetch /\ [][NextFetch]_vars

----------------------------------------------------------------------------
(* The pool with more articles than threads *)

PoolArticles == max_workers + 1

\* one request over PoolArticles articles that all go to the service; every UPDATE
\* succeeds and the service, when it answers, answers a text without a number
InitPool ==
    /\ stock_data = StockRows(<<Close(100)>>)
    /\ news_sentiment = NewsRows([i \in 1..PoolArticles |-> Content(0, MinContentLen)])
    /\ recommendations = RecRows(0)
    /\ symbol_unique = TRUE
    /\ BeforeRequest

NextPool ==
    \/ \E name \in Names, stock_ok \in BOOLEAN, news_ok \in BOOLEAN :
          HandleRequest(name, stock_ok, news_ok)
    \/ \E i \in DOMAIN futures : WorkerStart(i)
    \/ \E i \in DOMAIN futures : WorkerFinish(i, <<"x">>)
    \/ \E i \in DOMAIN futures : Collect(i, TRUE)
    \/ Aggregate
    \/ TxDelete
    \/ TxInsert
    \/ TxCommit
    \/ TxFails

\* a free pool thread takes a queued task, and the service answers the call made for
\* the last article; it may take any time, or for ever, over the others
FairPool ==
    /\ InitPool /\ [][NextPool]_vars
    /\ WF_vars(\E i \in DOMAIN futures : WorkerStart(i))
    /\ WF_vars(PoolArticles \in DOMAIN futures /\ WorkerFinish(PoolArticles, <<"x">>))

----------------------------------------------------------------------------
(* The dashboard's read of the latest recommendation (final.py lines 92-104) *)

\* SELECT symbol, final_recommendation, recommendation_score, reasoning, created_at
\*   FROM recommendations WHERE LOWER(symbol) = LOWER(:symbol)
\*   ORDER BY created_at DESC LIMIT 1: <<>> for None, else the one row
fetch_recommendation(symbol) ==
    LET mine    == {r \in recommendations : LOWER(r.symbol) = LOWER(symbol)}
        ordered == OrderBy(mine, [r \in mine |-> -r.created_at])
    IN  IF mine = {} THEN <<>>
        ELSE Select(<<ordered[1]>>,
                    {"symbol", "final_recommendation", "recommendation_score",
                     "reasoning", "created_at"})

----------------------------------------------------------------------------
(* The dashboard's workflow trigger and monitor (final.py lines 161-236) *)

TerminalStates == {"SUCCEEDED", "FAILED", "CANCELLED"}

\* execution_data.get("state", "UNKNOWN"): the terminal states, a running execution,
\* and the default of a response without a state
ExecutionStates == TerminalStates \cup {"ACTIVE", "UNKNOWN"}

\* a poll that ends in requests.exceptions.RequestException, or in another exception
PollErrors == {"request_error", "other_error"}

NumSteps == 3      \* len(steps)

\* trigger_workflow_for_stock up to its call of monitor_workflow_execution: the token
\* or the POST fails, the response has no "name", or the execution id is stored and
\* the flag is raised
trigger_workflow_for_stock(outcome) ==
    /\ dash.pc = "idle"
    /\ IF outcome = "ok"
       THEN /\ session_state' = [workflow_execution_id |-> "executions/1",
                                 workflow_run_in_progress |-> TRUE]
            /\ dash' = [dash EXCEPT !.pc = "token"]
       ELSE /\ session_state' = [session_state EXCEPT !.workflow_run_in_progress = FALSE]
            /\ dash' = [dash EXCEPT !.pc = "returned", !.exit = outcome]
    /\ UNCHANGED <<dbVars, reqVars>>

\* monitor_workflow_execution builds its headers outside its try: a failing
\* get_id_token is caught by the except Exception of trigger_workflow_for_stock
monitor_get_id_token(ok) ==
    /\ dash.pc = "token"
    /\ IF ok
       THEN /\ dash' = [dash EXCEPT !.pc = "polling"]
            /\ UNCHANGED session_state
       ELSE /\ session_state' = [session_state EXCEPT !.workflow_run_in_progress = FALSE]
            /\ dash' = [dash EXCEPT !.pc = "returned", !.exit = "other_error"]
    /\ UNCHANGED <<dbVars, reqVars>>

\* the poll whose RequestException leaves the flag as it is
monitor_poll_FlagKept(result) ==
    /\ dash.pc = "polling"
    /\ session_state.workflow_run_in_progress
    /\ result \notin (TerminalStates \cup PollErrors) => Len(dash.observed) < MaxPolls
    /\ session_state' =
          IF result \in TerminalStates \cup {"other_error"}
          THEN [session_state EXCEPT !.workflow_run_in_progress = FALSE]
          ELSE session_state
    /\ dash' =
          IF result \in TerminalStates \cup PollErrors
          THEN [dash EXCEPT !.pc = "returned", !.observed = Append(@, result),
                            !.exit = IF result \in TerminalStates THEN "terminal" ELSE result]
          ELSE [dash EXCEPT !.observed = Append(@, result),
                            !.step_index = IF @ < NumSteps THEN @ + 1 ELSE @]
    /\ UNCHANGED <<dbVars, reqVars>>

\* one turn of "while st.session_state['workflow_run_in_progress']": the GET and what
\* it finds. A terminal state lowers the flag and breaks; a RequestException is caught
\* by the monitor and lowers the flag; another exception is caught by the trigger and
\* lowers the flag; any other state is followed by time.sleep(5) and the next turn
monitor_poll(result) ==
    /\ dash.pc = "polling"
    /\ session_state.workflow_run_in_progress
    /\ result \notin (TerminalStates \cup PollErrors) => Len(dash.observed) < MaxPolls
    /\ session_state' =
          IF result \in TerminalStates \cup PollErrors
          THEN [session_state EXCEPT !.workflow_run_in_progress = FALSE]
          ELSE session_state
    /\ dash' =
          IF result \in TerminalStates \cup PollErrors
          THEN [dash EXCEPT !.pc = "returned", !.observed = Append(@, result),
                            !.exit = IF result \in TerminalStates THEN "terminal" ELSE result]
          ELSE [dash EXCEPT !.observed = Append(@, result),
                            !.step_index = IF @ < NumSteps THEN @ + 1 ELSE @]
    /\ UNCHANGED <<dbVars, reqVars>>

InitDashboard ==
    /\ stock_data = {}
    /\ news_sentiment = {}
    /\ recommendations = RecRows(0)
    /\ symbol_unique = TRUE
    /\ BeforeRequest

NextDashboard ==
    \/ \E outcome \in {"token_error", "request_error", "bad_response", "ok"} :
          trigger_workflow_for_stock(outcome)
    \/ \E ok \in BOOLEAN : monitor_get_id_token(ok)
    \/ \E result \in ExecutionStates \cup PollErrors : monitor_poll(result)

SpecDashboard == InitDashboard /\ [][NextDashboard]_vars

----------------------------------------------------------------------------
(* Vocabulary of the properties *)

Done == pc = "done"

RowsOf(rows, symbol) == {r \in rows : r.symbol = symbol}

OldestOf(rows) == CHOOSE r \in rows : \A q \in rows : r.created_at <= q.created_at

InUnitRange(x) == ~RLess(x, Rat(-1, 1)) /\ ~RLess(Rat(1, 1), x)

\* the symbol asked for has a price row in the last year / one with a close
RecentPrices ==
    {r \in stock_data : LOWER(r.symbol) = LOWER(company_name) /\ r.date > YearAgo}

ArticlesOfSymbol == {r \in news_sentiment : LOWER(r.symbol) = LOWER(company_name)}

\* a numeric substring as the specification words it: an optional sign, then a decimal
\* (digits, a point, digits) or an integer; the index after it, 0 when i starts none
NumberAt(s, i) ==
    LET j   == IF i <= Len(s) /\ s[i] \in Signs THEN i + 1 ELSE i
        k   == DigitRun(s, j)
        dec == IF k <= Len(s) /\ s[k] = "." /\ DigitRun(s, k + 1) > k + 1
               THEN DigitRun(s, k + 1) ELSE 0
    IN  IF dec # 0 THEN dec ELSE IF k > j THEN k ELSE 0

HasNumber(s) == \E i \in 1..Len(s) : NumberAt(s, i) # 0

FirstNumber(s) ==
    LET i == CHOOSE h \in 1..Len(s) :
                 NumberAt(s, h) # 0 /\ \A g \in 1..(h - 1) : NumberAt(s, g) = 0
    IN  float(SubSeq(s, i, NumberAt(s, i) - 1))

Answered(i) == futures[i].state = "done" /\ futures[i].called /\ futures[i].text # ScoringError

----------------------------------------------------------------------------
(* C1 *)

\* C1: a run that answers 200 for a symbol whose recommendations held 5 rows, with
\* neither its DELETE nor its commit failing, leaves exactly 5 rows for the symbol: the
\* oldest of the original 5 is gone and the row of this run is there.
C1_RetentionEvictsOldest ==
    (Done /\ response.status = 200
          /\ log.failed_at \notin {"tx_delete", "tx_commit"}
          /\ Cardinality(RowsOf(log.recs0, stock_symbol)) = RetentionKeep + 1)
    => /\ Cardinality(RowsOf(recommendations, stock_symbol)) = RetentionKeep + 1
       /\ OldestOf(RowsOf(log.recs0, stock_symbol)) \notin recommendations
       /\ \E r \in RowsOf(recommendations, stock_symbol) : r.created_at = utcnow

----------------------------------------------------------------------------
(* C2 *)

\* C2: every score a task returned, every score in the list that is aggregated and
\* every sentiment_score stored in news_sentiment lies in [-1, 1].
C2_ScoresInUnitRange ==
    /\ \A i \in DOMAIN futures : InUnitRange(futures[i].value)
    /\ \A k \in DOMAIN sentiment_scores : InUnitRange(sentiment_scores[k])
    /\ \A r \in news_sentiment : InUnitRange(r.sentiment_score)

----------------------------------------------------------------------------
(* C3 *)

\* C3: when the response text holds a numeric substring, the scorer returns the value
\* of the first one, its sign included.
C3_FirstNumberReturned ==
    \A i \in DOMAIN futures :
        (Answered(i) /\ HasNumber(futures[i].text))
            => futures[i].value = FirstNumber(futures[i].text)

----------------------------------------------------------------------------
(* C4 *)

\* C4: a failed scoring call or a response without a number gives the score 0.0, and
\* once the article list was read non-empty the request reaches the aggregate and does
\* not end in an error, whatever the articles hold.
C4_ScoringNeverPropagates ==
    /\ \A i \in DOMAIN futures :
          (futures[i].state = "done" /\ futures[i].called
              /\ (futures[i].text = ScoringError \/ ~HasNumber(futures[i].text)))
            => futures[i].value = Zero
    /\ (Done /\ news_sentiment_df # <<>>) => (fused.set /\ response.status = 200)

----------------------------------------------------------------------------
(* C5 *)

AllValues == [i \in DOMAIN futures |-> futures[i].value]

\* C5: an article whose UPDATE failed has its score in the list at its own turn; a
\* request in which an UPDATE failed ends with a recommendation whose aggregate is the
\* mean over every article, each article having had one write attempt; the only other
\* ending is the 500 of a task's own exception, never one caused by the UPDATE.
C5_UpdateFailureIsolated ==
    /\ \A k \in DOMAIN log.updates :
          /\ k \in DOMAIN sentiment_scores
          /\ \E i \in DOMAIN futures :
                /\ news_sentiment_df[i].id = log.updates[k]
                /\ futures[i].collected
                /\ sentiment_scores[k] = futures[i].value
    /\ (Done /\ log.update_failed # {}) =>
          \/ /\ response.status = 200
             /\ fused.set
             /\ fused.recent_sentiment = mean(AllValues)
             /\ Len(log.updates) = Len(futures)
             /\ \A i \in DOMAIN futures :
                   Cardinality({k \in DOMAIN log.updates :
                                   log.updates[k] = news_sentiment_df[i].id}) = 1
          \/ /\ response.status = 500
             /\ \E i \in DOMAIN futures : futures[i].raised

\* a failed UPDATE was followed by another article's successful one, and the request
\* answered 200
C5_Witness ==
    /\ Done /\ response.status = 200
    /\ \E k \in DOMAIN log.updates :
          /\ log.updates[k] \in log.update_failed
          /\ k + 1 \in DOMAIN log.updates
          /\ log.updates[k + 1] \notin log.update_failed
          /\ sentiment_scores[k] # Zero

----------------------------------------------------------------------------
(* C6 *)

\* C6: for a symbol without a price row in the last year nothing is scored and nothing
\* is written, and the request whose price read succeeded answers 404.
C6_NoPricesNotFound ==
    (pc # "idle" /\ company_name # "" /\ RecentPrices = {})
    => /\ log.scoring_calls = 0
       /\ futures = <<>>
       /\ log.updates = <<>>
       /\ news_sentiment = log.news0
       /\ log.write = "none"
       /\ recommendations = log.recs0
       /\ (log.stock_read = "ok" => response.status = 404)

\* such a request answered 404 although an older price row and a scorable article exist
C6_Witness ==
    /\ Done /\ company_name # "" /\ RecentPrices = {}
    /\ response.status = 404
    /\ \E r \in stock_data : LOWER(r.symbol) = LOWER(company_name)
    /\ \E r \in ArticlesOfSymbol :
          ~r.full_content.null /\ r.full_content.core >= MinContentLen

----------------------------------------------------------------------------
(* C7 *)

\* C7: for a symbol with price rows and no article no recommendation is computed and
\* recommendations keeps its rows, and the request whose reads succeeded answers 404.
C7_NoNewsNotFound ==
    (pc # "idle" /\ company_name # "" /\ RecentPrices # {} /\ ArticlesOfSymbol = {})
    => /\ ~fused.set
       /\ log.write = "none"
       /\ recommendations = log.recs0
       /\ (log.news_read = "ok" => response.status = 404)

\* such a request answered 404 with a row of the symbol in recommendations
C7_Witness ==
    /\ Done /\ company_name # "" /\ RecentPrices # {} /\ ArticlesOfSymbol = {}
    /\ response.status = 404
    /\ RowsOf(recommendations, stock_symbol) # {}

----------------------------------------------------------------------------
(* C8 *)

\* C8: when no price row of the last year has a close, the request does not answer
\* with a recommendation.
C8_NoCloseSignalled ==
    (Done /\ company_name # "" /\ \A r \in RecentPrices : r.close.null)
    => response.status # 200

----------------------------------------------------------------------------
(* C9 *)

\* C9: until the write commits the recommendations table is the one the request found,
\* also after the DELETE ran and the write failed; once it commits the row of this
\* run is in it.
C9_WriteAtomic ==
    /\ log.write # "committed" => recommendations = log.recs0
    /\ log.write = "committed" =>
          \E r \in RowsOf(recommendations, stock_symbol) : r.created_at = utcnow

\* the write failed after its DELETE had removed rows inside the transaction
C9_Witness ==
    /\ Done /\ log.write = "rolled_back" /\ log.failed_at = "tx_insert"
    /\ Cardinality(RowsOf(log.recs0, stock_symbol)) > RetentionKeep
    /\ recommendations = log.recs0

----------------------------------------------------------------------------
(* C10 *)

\* C10: a response sent after the recommendation write failed carries a top-level error.
C10_WriteFailureReported ==
    (Done /\ log.write = "rolled_back") => "error" \in DOMAIN response.body

----------------------------------------------------------------------------
(* C11 *)

\* C11: a request whose recommendation write was rolled back answers 200 with symbol,
\* recommendation_score, final_recommendation and reasoning, and these are the values
\* fused from the scores and the trend, the same a committed write answers with.
C11_WriteFailureStillAnswers ==
    (Done /\ log.write \in {"rolled_back", "committed"})
    => /\ response.status = 200
       /\ response.body =
             [symbol |-> upper(company_name),
              recommendation_score |-> Fuse(sentiment_scores, overall_trend).recommendation_score,
              final_recommendation |-> Fuse(sentiment_scores, overall_trend).final_recommendation,
              reasoning |-> Fuse(sentiment_scores, overall_trend).reasoning]

\* the commit itself failed and the response recommends buying or selling
C11_Witness ==
    /\ Done /\ log.write = "rolled_back" /\ log.failed_at = "tx_commit"
    /\ response.status = 200
    /\ response.body.final_recommendation # "Hold"
    /\ recommendations = log.recs0

----------------------------------------------------------------------------
(* C12 *)

\* C12: a request that has submitted its scoring tasks eventually answers, also when
\* the scoring service never answers a call.
C12_EveryRequestReturns == (pc = "scoring") ~> Done

----------------------------------------------------------------------------
(* C13 *)

\* C13: a finished task over an article whose content has fewer than 100 characters
\* once the surrounding whitespace is taken off has the score 0.0 and made no call to
\* the scoring service; the calls counted are those of the other tasks.
C13_ShortContentSkipped ==
    /\ \A i \in DOMAIN futures :
          (/\ futures[i].state = "done"
           /\ ~news_sentiment_df[i].full_content.null
           /\ news_sentiment_df[i].full_content.core < MinContentLen)
          => (futures[i].value = Zero /\ ~futures[i].called /\ ~futures[i].raised)
    /\ log.scoring_calls =
          Cardinality({i \in DOMAIN futures :
                          /\ futures[i].state = "done"
                          /\ ~news_sentiment_df[i].full_content.null
                          /\ news_sentiment_df[i].full_content.core >= MinContentLen})

\* an article of 100 characters, 99 without its whitespace, was scored 0.0 without a
\* call while another article of the request was sent to the service
C13_Witness ==
    \E i, j \in DOMAIN futures :
        /\ futures[i].state = "done" /\ futures[j].state = "done"
        /\ news_sentiment_df[i].full_content = Content(1, MinContentLen - 1)
        /\ futures[i].value = Zero /\ ~futures[i].called
        /\ futures[j].called /\ futures[j].value # Zero

----------------------------------------------------------------------------
(* C14 *)

----------------------------------------------------------------------------
(* C15 *)

\* C15: the weights are 0.7 and 0.3 when the aggregate sentiment is above 0.5 in
\* magnitude, whatever the trend; otherwise 0.3 and 0.7 when the trend is above 0.5 in
\* magnitude; otherwise 0.5 and 0.5; and the score is the weighted sum of the two.
C15_WeightsFirstMatch ==
    fused.set =>
        LET s  == fused.recent_sentiment
            t  == overall_trend
            sw == fused.sentiment_weight
            tw == fused.trend_weight
            Large(x) == RLess(Rat(1, 2), x) \/ RLess(x, Rat(-1, 2))
        IN  /\ Large(s) => (sw = Rat(7, 10) /\ tw = Rat(3, 10))
            /\ (~Large(s) /\ Large(t)) => (sw = Rat(3, 10) /\ tw = Rat(7, 10))
            /\ (~Large(s) /\ ~Large(t)) => (sw = Rat(1, 2) /\ tw = Rat(1, 2))
            /\ fused.recommendation_score = RAdd(RMul(sw, s), RMul(tw, t))

\* sentiment and trend are both above 0.5 in magnitude and the sentiment rule was taken
C15_Witness ==
    /\ fused.set
    /\ RLess(Rat(1, 2), RAbs(fused.recent_sentiment))
    /\ RLess(Rat(1, 2), RAbs(overall_trend))
    /\ fused.sentiment_weight = Rat(7, 10)
    /\ fused.trend_weight = Rat(3, 10)

----------------------------------------------------------------------------
(* C16 *)

\* C16: the category is Buy exactly when the score is above 0.2, Sell exactly when it
\* is below -0.2 and Hold exactly when it is neither; it is one of the three, and the
\* 200 response carries it.
C16_CategoryThresholds ==
    fused.set =>
        LET x     == fused.recommendation_score
            final == fused.final_recommendation
        IN  /\ final \in {"Buy", "Sell", "Hold"}
            /\ final = "Buy"  <=> RLess(Rat(1, 5), x)
            /\ final = "Sell" <=> RLess(x, Rat(-1, 5))
            /\ final = "Hold" <=> (~RLess(Rat(1, 5), x) /\ ~RLess(x, Rat(-1, 5)))
            /\ (Done /\ response.status = 200) => response.body.final_recommendation = final

\* a score of exactly 0.2 was answered as Hold
C16_Witness ==
    /\ Done /\ response.status = 200
    /\ fused.recommendation_score = Rat(1, 5)
    /\ response.body.final_recommendation = "Hold"

----------------------------------------------------------------------------
(* C17 *)

\* C17: the price history analyze_sentiment reads for a symbol holds no two bars of
\* the same date, whatever fetch_stock_data calls were made before.
C17_OneBarPerDate ==
    LET df == stock_data_query("AAPL")
    IN  \A i, j \in DOMAIN df : i # j => df[i].date # df[j].date

----------------------------------------------------------------------------
(* C18 *)

\* C18: once the write of a run has committed, recommendations holds a row of the
\* upper-cased symbol with this run's score, category, reasoning and created_at, and
\* the dashboard's read of the latest recommendation gives this run's values, however
\* the symbol is typed there.
C18_CommittedRunIsLatest ==
    log.write = "committed" =>
        /\ \E r \in recommendations :
              /\ r.symbol = upper(company_name)
              /\ r.recommendation_score = fused.recommendation_score
              /\ r.final_recommendation = fused.final_recommendation
              /\ r.reasoning = fused.reasoning
              /\ r.created_at = utcnow
        /\ \A typed \in {"aapl", "AAPL"} :
              fetch_recommendation(typed) =
                 <<[symbol |-> upper(company_name),
                    final_recommendation |-> fused.final_recommendation,
                    recommendation_score |-> fused.recommendation_score,
                    reasoning |-> fused.reasoning,
                    created_at |-> utcnow]>>

\* the run committed over an older row of the symbol that recommended otherwise
C18_Witness ==
    /\ Done /\ log.write = "committed"
    /\ \E old \in RowsOf(log.recs0, upper(company_name)) :
          /\ old.final_recommendation # fused.final_recommendation
          /\ old.created_at < utcnow
    /\ fetch_recommendation(company_name)[1].final_recommendation = fused.final_recommendation

----------------------------------------------------------------------------
(* C19 *)

\* C19: at every moment at most 5 scoring tasks are running, and the article whose own
\* call the service answers is eventually scored, however long the scoring of the other
\* articles takes.
C19_BoundedPoolScoresAll ==
    /\ [](Cardinality(Running) <= max_workers)
    /\ (pc = "scoring")
          ~> (PoolArticles \in DOMAIN futures /\ futures[PoolArticles].state = "done")

----------------------------------------------------------------------------
(* C20 *)

\* C20: a request without company_name is answered 400 with no read of prices or
\* articles, no scoring task, no scoring call and no write to any table.
C20_MissingNameRejected ==
    (pc # "idle" /\ company_name = "")
    => /\ Done
       /\ response.status = 400
       /\ log.stock_read = "none" /\ log.news_read = "none"
       /\ futures = <<>> /\ log.scoring_calls = 0
       /\ log.updates = <<>> /\ news_sentiment = log.news0
       /\ log.write = "none" /\ recommendations = log.recs0
       /\ ~fused.set

\* such a request was answered 400 while prices and a scorable article were stored
C20_Witness ==
    /\ Done /\ company_name = "" /\ response.status = 400
    /\ \E r \in stock_data : r.date > YearAgo /\ ~r.close.null
    /\ \E r \in news_sentiment :
          ~r.full_content.null /\ r.full_content.core >= MinContentLen

----------------------------------------------------------------------------
(* C21 *)

\* C21: in every state after an article's UPDATE committed, the row of that article
\* holds the score of its task, also after another article's UPDATE failed, after the
\* recommendation write rolled back and after the request answered 500; the rows whose
\* UPDATE failed or was not attempted are as the request found them.
C21_ArticleWritesDurable ==
    /\ \A i \in DOMAIN futures :
          LET id     == news_sentiment_df[i].id
              tried  == \E k \in DOMAIN log.updates : log.updates[k] = id
              stored == {r \in news_sentiment : r.id = id}
          IN  IF tried /\ id \notin log.update_failed
              THEN \A r \in stored : r.sentiment_score = futures[i].value
              ELSE stored = {r \in log.news0 : r.id = id}
    /\ Cardinality(news_sentiment) = Cardinality(log.news0)

\* a score other than 0.0 was committed, the next article's UPDATE failed, the
\* recommendation write rolled back, and the score is still stored
C21_Witness ==
    /\ Done /\ log.write = "rolled_back"
    /\ \E k \in DOMAIN log.updates :
          /\ log.updates[k] \notin log.update_failed
          /\ k + 1 \in DOMAIN log.updates
          /\ log.updates[k + 1] \in log.update_failed
          /\ sentiment_scores[k] # Zero
          /\ \E r \in news_sentiment :
                r.id = log.updates[k] /\ r.sentiment_score = sentiment_scores[k]

----------------------------------------------------------------------------
(* C22 *)

\* the UPDATE attempts made for the article of task i
AttemptsFor(i) == {k \in DOMAIN log.updates : log.updates[k] = news_sentiment_df[i].id}

\* C22: no article has two UPDATE attempts and none is attempted before its task is
\* done; the k-th attempt is made at the turn that appends the k-th score; the
\* aggregate is computed after every article had its attempt and the recommendation
\* is written after the aggregate; and a request that submitted its tasks and has
\* answered has scored every article and attempted exactly one UPDATE for each.
C22_ScoredAndWrittenOnce ==
    /\ \A i \in DOMAIN futures :
          /\ Cardinality(AttemptsFor(i)) <= 1
          /\ AttemptsFor(i) # {} => (futures[i].state = "done" /\ futures[i].collected)
    /\ Len(log.updates) = Len(sentiment_scores)
    /\ fused.set => \A i \in DOMAIN futures : Cardinality(AttemptsFor(i)) = 1
    /\ log.write # "none" => fused.set
    /\ (Done /\ futures # <<>>) =>
          \A i \in DOMAIN futures :
              /\ futures[i].state = "done" /\ ~futures[i].raised
              /\ Cardinality(AttemptsFor(i)) = 1

----------------------------------------------------------------------------
(* C23 *)

\* the latest price row of the last year that has a close
LatestBar ==
    CHOOSE r \in RecentPrices :
        ~r.close.null /\ \A q \in RecentPrices : ~q.close.null => q.date <= r.date

\* C23: the row a committed run wrote for its symbol carries the 7-period moving
\* average at the latest bar (none while there are fewer than 7 bars), and the close
\* and the date of the latest bar that has a close.
C23_RowCarriesTrendSummary ==
    log.write = "committed" =>
        \E r \in RowsOf(recommendations, stock_symbol) :
            /\ r.created_at = utcnow
            /\ [null |-> FALSE, v |-> r.moving_average] = moving_average(stock_data_df)
            /\ r.close_price = LatestBar.close.v
            /\ r.date = LatestBar.date

----------------------------------------------------------------------------
(* C24 *)

\* the price rows of the last year that have a close
BarsWithClose == {r \in RecentPrices : ~r.close.null}

\* C24: when the symbol has exactly one price bar with a close and the price read
\* succeeded, the trend is 0.0 and the request goes on to read the articles; with
\* articles read it submits their tasks, it answers 200 unless a task raised, and the
\* score it computes and answers with is the sentiment weight times the mean score.
C24_SingleBarTrendZero ==
    (pc # "idle" /\ company_name # "" /\ log.stock_read = "ok"
                 /\ Cardinality(BarsWithClose) = 1)
    => /\ overall_trend = Zero
       /\ log.news_read # "none"
       /\ (log.news_read = "ok" /\ ArticlesOfSymbol # {}) =>
             Len(futures) = Cardinality(ArticlesOfSymbol)
       /\ fused.set =>
             fused.recommendation_score = RMul(fused.sentiment_weight, mean(AllValues))
       /\ (Done /\ futures # <<>> /\ \A i \in DOMAIN futures : ~futures[i].raised) =>
             /\ response.status = 200
             /\ response.body.recommendation_score
                   = RMul(fused.sentiment_weight, mean(AllValues))

\* a symbol with one bar got a recommendation other than Hold, and it was stored
C24_Witness ==
    /\ Done /\ company_name # "" /\ Cardinality(BarsWithClose) = 1
    /\ overall_trend = Zero
    /\ response.status = 200
    /\ response.body.final_recommendation # "Hold"
    /\ log.write = "committed"

----------------------------------------------------------------------------
(* C25 *)

\* C25: when trigger_workflow_for_stock has returned the flag is False; while the
\* monitor loop runs the flag is True and every state it has seen is non-terminal; a
\* loop that was left saw a terminal state or an exception at its last poll and
\* non-terminal states before; and after a poll that saw a non-terminal state the
\* loop is still polling.
C25_FlagClearedOnReturn ==
    LET seen == dash.observed
        n    == Len(seen)
        Ends(x) == x \in {"SUCCEEDED", "FAILED", "CANCELLED", "request_error", "other_error"}
    IN  /\ dash.pc = "returned" => ~session_state.workflow_run_in_progress
        /\ dash.pc = "polling" =>
              (session_state.workflow_run_in_progress /\ \A k \in 1..n : ~Ends(seen[k]))
        /\ (dash.pc = "returned" /\ n > 0) =>
              (Ends(seen[n]) /\ \A k \in 1..(n - 1) : ~Ends(seen[k]))
        /\ (n > 0 /\ ~Ends(seen[n])) => dash.pc = "polling"

\* the trigger returned after three polls that found the execution running and a
\* fourth that found it FAILED
C25_Witness ==
    /\ dash.pc = "returned"
    /\ Len(dash.observed) = 4
    /\ dash.observed[3] = "ACTIVE"
    /\ dash.observed[4] = "FAILED"
    /\ session_state.workflow_execution_id # "None"
    /\ ~session_state.workflow_run_in_progress

====
